---- MODULE Spec2Model ----
(***************************************************************************)
(* Model of provider/galaxy.go: the AnsibleGalaxy provider and its one     *)
(* operation VersionsForRole, followed by the Resolver that turns the      *)
(* returned version list into a ResolutionResult.                          *)
(*                                                                         *)
(* Go strings that the code takes apart (role name, source, namespace,     *)
(* query value) are sequences of one-character strings; strings that are   *)
(* only compared (version names, URLs, error kinds) are TLA+ strings.      *)
(***************************************************************************)
EXTENDS Integers, Sequences, FiniteSets, TLC

VARIABLES g, ctx, r, pc, keywords, namespace, req, calls, transport, resp,
          results, ret, result

vars == <<g, ctx, r, pc, keywords, namespace, req, calls, transport, resp,
          results, ret, result>>

----------------------------------------------------------------------------
(* Bounds of the model.                                                    *)

\* Largest number of entries in a decoded "results" list.
MaxEntries == 3

BoundedSeq(S, n) == UNION {[1..k -> S] : k \in 0..n}

----------------------------------------------------------------------------
(* Inputs.                                                                 *)

DefaultAnsibleGalaxyURL == "https://galaxy.ansible.com"

\* Arguments given to NewAnsibleGalaxy: none, a mirror, an unparsable URL.
BaseURLArgs == {"", "http://galaxy.local", "://galaxy.local"}

\* Base URLs on which url.Parse reports an error ("missing protocol scheme").
UnparsableURLs == {"://galaxy.local"}

\* The context handed to VersionsForRole; NewRequestWithContext refuses nil.
Contexts == {"background", "nil"}

\* Role names and sources: with a separator, without one, with an upper-case
\* namespace, with a leading separator, with a character the query escapes.
RoleNames == {<<"a", ".", "b">>, <<"a">>, <<".", "b">>}
RoleSources == {<< >>, <<"A", ".", "b">>, <<"a", " ", "b">>}
VersionStrings == {"v1.0.0", "v1.1.0"}

Roles == [Name : RoleNames, Source : RoleSources, Version : VersionStrings]

\* What the registry may answer.
StatusCodes == {199, 200, 299, 300}
NamespaceNames == {<< >>, <<"a">>, <<"A">>}
VersionLists == {<< >>, <<[name |-> "v1.1.0"], [name |-> "v1.0.0"] >>}
GalaxyResults == [Namespace : NamespaceNames, Versions : VersionLists]

UnreadableBody == [read |-> FALSE, json |-> FALSE, results |-> << >>]
MalformedBody  == [read |-> TRUE,  json |-> FALSE, results |-> << >>]
JSONBodies == {[read |-> TRUE, json |-> TRUE, results |-> rs] :
                  rs \in BoundedSeq(GalaxyResults, MaxEntries)}
Bodies == {UnreadableBody, MalformedBody} \cup JSONBodies
Responses == [StatusCode : StatusCodes, Body : Bodies]

NoRequest == [method |-> "", url |-> "", query |-> << >>, headers |-> << >>]
NoResponse == [StatusCode |-> 0, Body |-> UnreadableBody]
NoReturn == [versions |-> << >>, nil |-> TRUE, err |-> "pending"]
NoResult == [latestVersion |-> << >>, status |-> "pending"]

----------------------------------------------------------------------------
(* Pure functions of the code.                                             *)

NewAnsibleGalaxy(baseURL) ==
    IF baseURL = "" THEN [baseURL |-> DefaultAnsibleGalaxyURL]
                    ELSE [baseURL |-> baseURL]

\* url.Parse(g.baseURL + "/api/v1/search/roles/") reports an error.
UrlParseFails(gx) == gx.baseURL \in UnparsableURLs

\* strings.Split(s, sep) for a one-character sep: the segments between the
\* separators, a single segment (s itself) when s holds no separator.
RECURSIVE SplitFrom(_, _, _, _)
SplitFrom(s, sep, i, cur) ==
    IF i > Len(s) THEN <<cur>>
    ELSE IF s[i] = sep THEN <<cur>> \o SplitFrom(s, sep, i + 1, << >>)
    ELSE SplitFrom(s, sep, i + 1, Append(cur, s[i]))

Split(s, sep) == SplitFrom(s, sep, 1, << >>)

\* Mutant: the source is ignored, the name is always the keyword.
KeywordsIgnoresSource(role) == role.Name

Keywords(role) ==
    IF Len(role.Source) # 0 THEN role.Source ELSE role.Name

\* Mutant: no namespace is expected of a keyword without a separator.
NamespaceOnlyWithSeparator(kw) ==
    LET split == Split(kw, ".")
    IN  IF Len(split) > 1 THEN split[1] ELSE << >>

Namespace(kw) ==
    LET split == Split(kw, ".")
    IN  IF Len(split) > 0 THEN split[1] ELSE << >>

\* url.QueryEscape, character by character: a space becomes '+', letters
\* and '.' are unreserved and stay.
EscapeChar(c) == IF c = " " THEN "+" ELSE c
QueryEscape(s) == [i \in 1..Len(s) |-> EscapeChar(s[i])]

\* params.Add("keywords", keywords); baseURL.RawQuery = params.Encode()
EncodeParams(kw) == <<[key |-> "keywords", value |-> QueryEscape(kw)] >>

NewRequest(gx, kw) ==
    [method  |-> "GET",
     url     |-> gx.baseURL,
     query   |-> EncodeParams(kw),
     headers |-> <<[key |-> "User-Agent", value |-> "ansible-requirements-lint"],
                   [key |-> "Accept", value |-> "application/json"] >>]

\* The condition under which the status code is rejected, as written.
UnexpectedStatus(code) == code < 200 /\ code >= 300

\* Mutant: the loop has no break, the last matching entry is kept.
LastMatchFrom(rs, ns, i) ==
    LET hits == {j \in i..Len(rs) : rs[j].Namespace = ns}
    IN  IF hits = {} THEN 0 ELSE CHOOSE j \in hits : \A k \in hits : k <= j

\* Index of the entry `matching` points to, 0 for a nil pointer.
RECURSIVE FirstMatchFrom(_, _, _)
FirstMatchFrom(rs, ns, i) ==
    IF i > Len(rs) THEN 0
    ELSE IF rs[i].Namespace = ns THEN i
    ELSE FirstMatchFrom(rs, ns, i + 1)

\* Mutant: a single entry is filtered by namespace like any other.
MatchingAlwaysFilters(rs, ns) == FirstMatchFrom(rs, ns, 1)

\* Mutant: when no namespace matches, the first entry is taken.
MatchingFallsBackToFirst(rs, ns) ==
    IF Len(rs) = 0 THEN 0
    ELSE IF FirstMatchFrom(rs, ns, 1) = 0 THEN 1
    ELSE FirstMatchFrom(rs, ns, 1)

Matching(rs, ns) ==
    IF Len(rs) = 1 THEN 1 ELSE FirstMatchFrom(rs, ns, 1)

\* versions[i] = v.Name
VersionNames(entry) ==
    [i \in 1..Len(entry.Versions) |-> entry.Versions[i].name]

Failure(kind) == [versions |-> << >>, nil |-> TRUE, err |-> kind]

\* Mutant: an entry without versions is reported as not found.
SelectReturnRejectsEmpty(rs, ns) ==
    LET m == Matching(rs, ns)
    IN  IF m = 0 \/ Len(rs[m].Versions) = 0
        THEN Failure("unable to find role")
        ELSE [versions |-> VersionNames(rs[m]), nil |-> FALSE, err |-> "nil"]

\* What VersionsForRole returns once the body is decoded.
SelectReturn(rs, ns) ==
    LET m == Matching(rs, ns)
    IN  IF m = 0 THEN Failure("unable to find role")
        ELSE [versions |-> VersionNames(rs[m]), nil |-> FALSE, err |-> "nil"]

\* What VersionsForRole does with a response: the status check, the read
\* of the body and its decoding.  "ok" lets the selection go on.
DecodeOutcome(rsp) ==
    IF UnexpectedStatus(rsp.StatusCode) THEN "unexpected response code"
    ELSE IF ~rsp.Body.read THEN "ReadAll"
    ELSE IF ~rsp.Body.json THEN "Unmarshal"
    ELSE "ok"

\* Mutant: an empty version list is reported as drift.
ResolveEmptyListOutdated(role, rt) ==
    IF rt.err # "nil" THEN [latestVersion |-> << >>, status |-> "Unresolved"]
    ELSE IF Len(rt.versions) = 0
         THEN [latestVersion |-> << >>, status |-> "Outdated"]
    ELSE IF rt.versions[1] = role.Version
         THEN [latestVersion |-> <<rt.versions[1]>>, status |-> "UpToDate"]
    ELSE [latestVersion |-> <<rt.versions[1]>>, status |-> "Outdated"]

\* The Resolver: failures and empty lists degrade to Unresolved, the first
\* version of the list is the latest, compared as a string.
Resolve(role, rt) ==
    IF rt.err # "nil" THEN [latestVersion |-> << >>, status |-> "Unresolved"]
    ELSE IF Len(rt.versions) = 0
         THEN [latestVersion |-> << >>, status |-> "Unresolved"]
    ELSE IF rt.versions[1] = role.Version
         THEN [latestVersion |-> <<rt.versions[1]>>, status |-> "UpToDate"]
    ELSE [latestVersion |-> <<rt.versions[1]>>, status |-> "Outdated"]

----------------------------------------------------------------------------
(* The state machine.                                                      *)

Init ==
    /\ g \in {NewAnsibleGalaxy(b) : b \in BaseURLArgs}
    /\ ctx \in Contexts
    /\ r \in Roles
    /\ pc = "start"
    /\ keywords = << >>
    /\ namespace = << >>
    /\ req = NoRequest
    /\ calls = 0
    /\ transport = "none"
    /\ resp = NoResponse
    /\ results = << >>
    /\ ret = NoReturn
    /\ result = NoResult

\* Lines 44-78: the URL, the keywords, the namespace and the request.
Build ==
    /\ pc = "start"
    /\ IF UrlParseFails(g)
       THEN /\ ret' = Failure("url.Parse")
            /\ pc' = "done"
            /\ UNCHANGED <<keywords, namespace, req>>
       ELSE /\ keywords' = Keywords(r)
            /\ namespace' = Namespace(Keywords(r))
            /\ IF ctx = "nil"
               THEN /\ ret' = Failure("NewRequest")
                    /\ pc' = "done"
                    /\ UNCHANGED req
               ELSE /\ req' = NewRequest(g, Keywords(r))
                    /\ pc' = "request"
                    /\ UNCHANGED ret
    /\ UNCHANGED <<g, ctx, r, calls, transport, resp, results, result>>

\* Mutant: the error of the call is dropped, (nil, nil) is returned.
DoFailsSwallowsError ==
    /\ pc = "request"
    /\ calls' = calls + 1
    /\ transport' = "error"
    /\ ret' = [versions |-> << >>, nil |-> TRUE, err |-> "nil"]
    /\ pc' = "done"
    /\ UNCHANGED <<g, ctx, r, keywords, namespace, req, resp, results, result>>

\* Mutant: a failed call is tried once more before giving up.
DoFailsRetries ==
    /\ pc = "request"
    /\ calls' = calls + 1
    /\ transport' = "error"
    /\ IF calls = 0
       THEN UNCHANGED <<ret, pc>>
       ELSE ret' = Failure("client.Do") /\ pc' = "done"
    /\ UNCHANGED <<g, ctx, r, keywords, namespace, req, resp, results, result>>

\* Lines 80-83, the call fails: it could not be sent, or it timed out.
DoFails ==
    /\ pc = "request"
    /\ calls' = calls + 1
    /\ transport' = "error"
    /\ ret' = Failure("client.Do")
    /\ pc' = "done"
    /\ UNCHANGED <<g, ctx, r, keywords, namespace, req, resp, results, result>>

\* Lines 80-84, the call is answered.
DoAnswers ==
    /\ pc = "request"
    /\ calls' = calls + 1
    /\ transport' = "response"
    /\ \E rsp \in Responses : resp' = rsp
    /\ pc' = "response"
    /\ UNCHANGED <<g, ctx, r, keywords, namespace, req, results, ret, result>>

\* Lines 86-113: the status check, the read of the body, the decoding.
Decode ==
    /\ pc = "response"
    /\ IF DecodeOutcome(resp) = "ok"
       THEN /\ results' = resp.Body.results
            /\ pc' = "decoded"
            /\ UNCHANGED ret
       ELSE /\ ret' = Failure(DecodeOutcome(resp))
            /\ pc' = "done"
            /\ UNCHANGED results
    /\ UNCHANGED <<g, ctx, r, keywords, namespace, req, calls, transport, resp,
                   result>>

\* Lines 115-136: the best match and its versions.
Select ==
    /\ pc = "decoded"
    /\ ret' = SelectReturn(results, namespace)
    /\ pc' = "done"
    /\ UNCHANGED <<g, ctx, r, keywords, namespace, req, calls, transport, resp,
                   results, result>>

\* The caller's verdict on what VersionsForRole returned.
Resolved ==
    /\ pc = "done"
    /\ result' = Resolve(r, ret)
    /\ pc' = "resolved"
    /\ UNCHANGED <<g, ctx, r, keywords, namespace, req, calls, transport, resp,
                   results, ret>>

Next == Build \/ DoFails \/ DoAnswers \/ Decode \/ Select \/ Resolved

Spec == Init /\ [][Next]_vars

----------------------------------------------------------------------------
(* Vocabulary of the properties, stated without the code's own helpers.    *)

TypeOK ==
    /\ pc \in {"start", "request", "response", "decoded", "done", "resolved"}
    /\ calls \in 0..1
    /\ transport \in {"none", "error", "response"}
    /\ r \in Roles
    /\ g \in {NewAnsibleGalaxy(b) : b \in BaseURLArgs}

\* VersionsForRole has returned.
Returned == pc \in {"done", "resolved"}

\* The request was built (neither url.Parse nor NewRequest failed).
RequestBuilt == pc \in {"request", "response", "decoded"} \/ calls > 0

\* The registry answered, with a success status and a decodable body.
Answered == transport = "response"
SuccessStatus == resp.StatusCode >= 200 /\ resp.StatusCode <= 299
GoodAnswer == Answered /\ SuccessStatus /\ resp.Body.read /\ resp.Body.json
Entries == resp.Body.results

\* The registry's reading of a query value: '+' stands for a space.
UnescapeChar(c) == IF c = "+" THEN " " ELSE c
QueryUnescape(s) == [i \in 1..Len(s) |-> UnescapeChar(s[i])]

\* The keyword and the namespace the reference calls for.
ExpectedKeyword == IF r.Source # << >> THEN r.Source ELSE r.Name
Separators(kw) == {i \in 1..Len(kw) : kw[i] = "."}
FirstSeparator(kw) ==
    CHOOSE i \in Separators(kw) : \A j \in Separators(kw) : i <= j
\* The part before the first separator; the whole keyword without one.
FirstSegment(kw) ==
    IF Separators(kw) = {} THEN kw ELSE SubSeq(kw, 1, FirstSeparator(kw) - 1)
\* The part before the first separator; the empty string without one.
FirstSegmentOrEmpty(kw) ==
    IF Separators(kw) = {} THEN << >> ELSE SubSeq(kw, 1, FirstSeparator(kw) - 1)
ExpectedNamespace == FirstSegment(ExpectedKeyword)

NamesOf(entry) == [i \in DOMAIN entry.Versions |-> entry.Versions[i].name]
Matches == {i \in 1..Len(Entries) : Entries[i].Namespace = ExpectedNamespace}
FirstMatch == CHOOSE i \in Matches : \A j \in Matches : i <= j
\* The entry the disambiguation rule designates, 0 when it designates none.
Designated ==
    IF Len(Entries) = 1 THEN 1 ELSE IF Matches = {} THEN 0 ELSE FirstMatch
Succeeded == ret.err = "nil"
Failed == ret.err # "nil" /\ ret.nil /\ ret.versions = << >>
SucceededWith(i) == Succeeded /\ ~ret.nil /\ ret.versions = NamesOf(Entries[i])

----------------------------------------------------------------------------
(* The claims.                                                             *)

\* C1: a response whose status code is outside 200..299 makes the lookup
\* fail with an error and no version list, whatever the body holds, and the
\* body of such a response is never decoded.
C1_NonSuccessStatusFails ==
    /\ (Returned /\ Answered /\ ~SuccessStatus) => Failed
    /\ (pc = "decoded") => SuccessStatus

\* C2 (as claimed): when the selected entry has an empty version list the
\* lookup does not succeed: it fails, with no version list.
C2_EmptyVersionListFails ==
    (Returned /\ GoodAnswer /\ Designated # 0
        /\ Entries[Designated].Versions = << >>) => Failed

\* C2 (amended): when the selected entry has an empty version list the
\* lookup succeeds, returning a nil error and an empty, non-nil list.
C2_EmptyVersionListSucceeds ==
    (Returned /\ GoodAnswer /\ Designated # 0
        /\ Entries[Designated].Versions = << >>)
      => (Succeeded /\ ~ret.nil /\ ret.versions = << >>)

C2_Witness ==
    /\ Returned /\ GoodAnswer /\ Len(Entries) >= 2 /\ Designated > 1
    /\ Entries[Designated].Versions = << >>
    /\ Succeeded /\ ret.versions = << >>

\* C3 (as claimed): the expected namespace is the first segment of the
\* keyword, the empty string when the keyword has no separator; then, with
\* several entries, only an entry of empty namespace can be selected.
C3_NamespaceEmptyWithoutSeparator ==
    /\ RequestBuilt => namespace = FirstSegmentOrEmpty(keywords)
    /\ (Returned /\ GoodAnswer /\ Separators(keywords) = {}
            /\ Len(Entries) >= 2 /\ Succeeded)
          => \E i \in 1..Len(Entries) :
                Entries[i].Namespace = << >> /\ SucceededWith(i)

\* C3 (amended): the expected namespace is the first segment of the keyword,
\* the whole keyword when it has no separator; then, with several entries,
\* only an entry whose namespace is the whole keyword can be selected.
C3_NamespaceIsFirstSegment ==
    /\ RequestBuilt => namespace = FirstSegment(keywords)
    /\ (Returned /\ GoodAnswer /\ Separators(keywords) = {}
            /\ Len(Entries) >= 2 /\ Succeeded)
          => \E i \in 1..Len(Entries) :
                Entries[i].Namespace = keywords /\ SucceededWith(i)

C3_Witness ==
    /\ Returned /\ GoodAnswer /\ Separators(keywords) = {} /\ keywords # << >>
    /\ Len(Entries) >= 2 /\ Succeeded
    /\ Entries[1].Namespace = << >>

\* C4: a single returned entry is selected and its versions are returned,
\* whatever its namespace.
C4_SingleEntrySelected ==
    (Returned /\ GoodAnswer /\ Len(Entries) = 1) => SucceededWith(1)

C4_Witness ==
    /\ Returned /\ GoodAnswer /\ Len(Entries) = 1
    /\ Entries[1].Namespace # ExpectedNamespace
    /\ Entries[1].Versions # << >>
    /\ SucceededWith(1)

\* C5: with two or more entries, the versions returned are those of the
\* first entry, in returned order, whose namespace equals the expected one.
C5_FirstMatchSelected ==
    (Returned /\ GoodAnswer /\ Len(Entries) >= 2 /\ Matches # {})
        => SucceededWith(FirstMatch)

C5_Witness ==
    /\ Returned /\ GoodAnswer /\ Len(Entries) >= 2
    /\ Cardinality(Matches) >= 2 /\ FirstMatch > 1
    /\ \E i \in Matches : NamesOf(Entries[i]) # NamesOf(Entries[FirstMatch])
    /\ \E i \in 1..Len(Entries) :
          /\ i \notin Matches
          /\ Entries[i].Namespace = <<"A">>
          /\ ExpectedNamespace = <<"a">>
    /\ SucceededWith(FirstMatch)

\* C6: with zero entries, or two or more, none of the expected namespace,
\* nothing is selected: an error and no version list.
C6_NoMatchFails ==
    (Returned /\ GoodAnswer /\ Len(Entries) # 1 /\ Matches = {}) => Failed

C6_Witness ==
    /\ Returned /\ GoodAnswer /\ Len(Entries) >= 2 /\ Matches = {}
    /\ ret.err = "unable to find role"

\* C7: a call that cannot be built or sent, that times out, or whose body
\* cannot be read or decoded, ends in a returned failure: an error and no
\* version list.
C7_TransportAndBodyFailuresFail ==
    /\ (Returned /\ (UrlParseFails(g) \/ ctx = "nil")) => Failed
    /\ (Returned /\ transport = "error") => Failed
    /\ (Returned /\ Answered /\ ~(resp.Body.read /\ resp.Body.json)) => Failed

C7_Witness ==
    /\ Returned /\ Answered /\ SuccessStatus /\ resp.Body = MalformedBody
    /\ ret.err = "Unmarshal" /\ Failed

\* C8: the keyword is the source when it is non-empty and the name
\* otherwise; it is the one parameter of the query and the string the
\* expected namespace is taken from.
C8_KeywordFromSourceOrName ==
    RequestBuilt =>
        /\ keywords = ExpectedKeyword
        /\ Len(req.query) = 1
        /\ req.query[1].key = "keywords"
        /\ QueryUnescape(req.query[1].value) = ExpectedKeyword
        /\ namespace = FirstSegment(ExpectedKeyword)

C8_Witness ==
    /\ pc = "request"
    /\ r.Source = <<"a", " ", "b">>
    /\ req.query[1].value = <<"a", "+", "b">>

\* C9 (as claimed): every invocation has made exactly one network call when
\* it returns.
C9_ExactlyOneCall == Returned => calls = 1

\* C9 (amended): an invocation makes at most one network call and never
\* retries; it has made exactly one when it returns, unless the URL or the
\* request could not be built, and then it returns an error having made none.
C9_AtMostOneCall ==
    /\ calls <= 1
    /\ Returned =>
          /\ (calls = 0) <=> (UrlParseFails(g) \/ ctx = "nil")
          /\ (calls = 0) => Failed
          /\ (transport = "error") => calls = 1

C9_Witness ==
    /\ Returned /\ calls = 0 /\ ret.err = "url.Parse"
    /\ g.baseURL \in UnparsableURLs

\* C10: an Outdated result has a latest version, different from the declared
\* one; an Unresolved result has none.
C10_ResultInvariant ==
    (pc = "resolved") =>
        /\ result.status \in {"UpToDate", "Outdated", "Unresolved"}
        /\ (result.status = "Outdated") =>
              /\ Len(result.latestVersion) = 1
              /\ result.latestVersion[1] # r.Version
        /\ (result.status = "Unresolved") => result.latestVersion = << >>

C10_Witness ==
    /\ pc = "resolved"
    /\ result.status = "Outdated"
    /\ GoodAnswer /\ Len(Entries) >= 2

====
